---------------------------- MODULE Spec2Model ----------------------------
(***************************************************************************)
(* Flip 7 rules engine (consolidated build, src/dist/fun_game.py): cards,  *)
(* deck, player state, action-card resolution and the round/game           *)
(* controller of main().                                                   *)
(***************************************************************************)
EXTENDS Integers, Sequences, FiniteSets

VARIABLES
    deck,               \* Deck._cards: list of cards, take_card pops the last
    discard_pile,       \* main: discard_pile list
    hand,               \* Player._hand, per player id
    score,              \* Player._score
    active,             \* Player._active
    second_chance,      \* Player._second_chance
    currentplayerid,    \* main: currentplayerid
    round,              \* main: round
    winner,             \* main: winner
    pc,                 \* position of the engine coroutine
    frames,             \* call stack of take_action / FlipThreeCard.action
    out,                \* last notification handed to ui.println
    total_cards,        \* history: size of the deck when it was constructed
    round_start_score,  \* history: each player's score when the round started
    busted_in_round,    \* history: players seen busted in the current round
    last_round,         \* history: the round-end processing of the last step, if any
    applied,            \* history: the action-card effect applied in this turn, if any
    prompted,           \* history: the player of the last decision prompt
    decision,           \* history: decision.lower() of the decision read in this turn
    last_turn,          \* history: the player and the round of the last consumed turn
    ui                  \* UI: _loop, _input_queue, the loop's scheduled callbacks, the UI thread

vars == <<deck, discard_pile, hand, score, active, second_chance,
          currentplayerid, round, winner, pc, frames, out, total_cards,
          round_start_score, busted_in_round, last_round, applied, prompted,
          decision, last_turn, ui>>

-----------------------------------------------------------------------------
(* Bounds of the model *)

NumPlayers == 3
MaxRound == 2
MaxHand == 4
MaxScore == 40
MaxValue == 8
MaxArgs == 3

(* Program constants *)

SEVEN == 7
BONUS == 15
WIN_SCORE == 200
FLIP_DRAWS == 3

Players == 1..NumPlayers

-----------------------------------------------------------------------------
(* Cards *)

NumberCard(v) == [cls |-> "NumberCard", value |-> v]
ScoreModifierCard(m, a) == [cls |-> "ScoreModifierCard", value |-> m, is_addition |-> a]
FreezeCard == [cls |-> "FreezeCard"]
SecondChanceCard == [cls |-> "SecondChanceCard"]
FlipThreeCard == [cls |-> "FlipThreeCard"]

IsNumberCard(c) == c.cls = "NumberCard"
IsScoreModifierCard(c) == c.cls = "ScoreModifierCard"
IsAddableCard(c) == c.cls \in {"NumberCard", "ScoreModifierCard"}
IsActionCard(c) == c.cls \in {"FreezeCard", "SecondChanceCard", "FlipThreeCard"}

-----------------------------------------------------------------------------
(* Sequence helpers *)

RECURSIVE SelectCards(_, _)
SelectCards(h, cls) ==
    IF h = <<>> THEN <<>>
    ELSE IF Head(h).cls \in cls THEN <<Head(h)>> \o SelectCards(Tail(h), cls)
         ELSE SelectCards(Tail(h), cls)

Range(s) == {s[i] : i \in 1..Len(s)}

\* every ordering of a finite set, as sequences without repetition
Orderings(S) ==
    {s \in [1..Cardinality(S) -> S] : \A i, j \in 1..Cardinality(S) : s[i] = s[j] => i = j}

\* every permutation of a sequence (random.shuffle)
Shuffles(s) ==
    {[i \in 1..Len(s) |-> s[p[i]]] : p \in Orderings(1..Len(s))}


-----------------------------------------------------------------------------
(* User input: what ui.input() returns, as sequences of characters *)

Lower(ch) ==
    CASE ch = "H" -> "h" [] ch = "I" -> "i" [] ch = "T" -> "t"
      [] ch = "S" -> "s" [] ch = "A" -> "a" [] ch = "Y" -> "y"
      [] ch = "E" -> "e" [] ch = "N" -> "n" [] ch = "D" -> "d"
      [] OTHER -> ch

\* str.lower()
lower(str) == [i \in 1..Len(str) |-> Lower(str[i])]

Digits == <<"0", "1", "2", "3", "4", "5", "6", "7", "8", "9">>

\* the characters int() reads as decimal digits
IsDecimalChar(ch) == \E d \in 1..Len(Digits) : Digits[d] = ch

\* characters with the Unicode digit property that are not decimal digits
OtherDigitChars == {"²"}

\* the characters str.isdigit() accepts
IsDigitChar(ch) == IsDecimalChar(ch) \/ ch \in OtherDigitChars

DigitValue(ch) == (CHOOSE d \in 1..Len(Digits) : Digits[d] = ch) - 1

\* str.isdigit(): non-empty and every character a digit
isdigit(str) == Len(str) > 0 /\ \A i \in 1..Len(str) : IsDigitChar(str[i])

\* int(str) raises ValueError unless every character is a decimal digit
IntRaises(str) == \E i \in 1..Len(str) : ~IsDecimalChar(str[i])

\* int(str) of a decimal digit string
RECURSIVE int(_)
int(str) ==
    IF str = <<>> THEN 0
    ELSE 10 * int(SubSeq(str, 1, Len(str) - 1)) + DigitValue(str[Len(str)])

DecisionInputs ==
    { <<"h", "i", "t">>, <<"H", "I", "T">>, <<"H", "i", "t">>,
      <<"s", "t", "a", "y">>, <<"S", "t", "a", "y">>,
      <<"e", "n", "d">>, <<"E", "N", "D">>,
      <<"e", "n", "d", "g", "a", "m", "e">>,
      <<"e", "n", "d", " ", "g", "a", "m", "e">>,
      <<"h", "i", "t", "s">>, <<"n", "o">>, <<>> }

TargetInputs ==
    { <<"0">>, <<"1">>, <<"2">>, <<"3">>, <<"4">>, <<"5">>, <<"0", "2">>,
      <<"x">>, <<"-", "1">>, <<>>, <<"²">> }

-----------------------------------------------------------------------------
(* Deck *)

\* Deck.take_card: pops the last card, None (here <<>>) when the deck is empty
take_card(d) ==
    IF Len(d) > 0
    THEN [card |-> <<d[Len(d)]>>, cards |-> SubSeq(d, 1, Len(d) - 1)]
    ELSE [card |-> <<>>, cards |-> d]

\* Deck.return_cards: appends the list to the deck and clears the list
return_cards(d, cards) == [cards |-> d \o cards, returned |-> <<>>]

-----------------------------------------------------------------------------
(* Player *)

number_cards(h) == SelectCards(h, {"NumberCard"})

RECURSIVE other_cards(_)
other_cards(h) ==
    IF h = <<>> THEN <<>>
    ELSE IF ~IsNumberCard(Head(h)) THEN <<Head(h)>> \o other_cards(Tail(h))
         ELSE other_cards(Tail(h))

HasDuplicate(h) == Len(number_cards(h)) # Cardinality(Range(number_cards(h)))

DistinctValues(h) == {c.value : c \in Range(number_cards(h))}

\* mutant: the second chance left out of the test
is_busted_no_chance(h, sc) == Len(number_cards(h)) # Cardinality(Range(number_cards(h)))

is_busted(h, sc) == ~sc /\ Len(number_cards(h)) # Cardinality(Range(number_cards(h)))

\* mutant: seven or more distinct values
has_seven_or_more(h) == Cardinality(Range(number_cards(h))) >= SEVEN

has_seven(h) == Cardinality(Range(number_cards(h))) = SEVEN

RECURSIVE total_multiplier(_)
total_multiplier(h) ==
    IF h = <<>> THEN 1
    ELSE IF IsAddableCard(Head(h)) /\ IsScoreModifierCard(Head(h)) /\ ~Head(h).is_addition
         THEN Head(h).value * total_multiplier(Tail(h))
         ELSE total_multiplier(Tail(h))

RECURSIVE total_addition(_)
total_addition(h) ==
    IF h = <<>> THEN 0
    ELSE IF IsAddableCard(Head(h)) /\ ~(IsScoreModifierCard(Head(h)) /\ ~Head(h).is_addition)
         THEN Head(h).value + total_addition(Tail(h))
         ELSE total_addition(Tail(h))

\* mutant: the busted test of update_score left out
update_score_unguarded(h, sc, s) ==
    s * total_multiplier(h) + total_addition(h)

\* mutant: the multiplier applied to the round's addition, not to the score
update_score_round_only(h, sc, s) ==
    IF is_busted(h, sc) THEN s
    ELSE s + total_multiplier(h) * total_addition(h)

\* mutant: the score replaced by the points of the round
update_score_replace(h, sc, s) ==
    IF is_busted(h, sc) THEN s
    ELSE total_multiplier(h) * total_addition(h)

\* mutant: a busted player loses the score
update_score_busted_zero(h, sc, s) ==
    IF is_busted(h, sc) THEN 0
    ELSE s * total_multiplier(h) + total_addition(h)

update_score(h, sc, s) ==
    IF is_busted(h, sc) THEN s
    ELSE s * total_multiplier(h) + total_addition(h)

add_bonus(h, sc, s) ==
    IF has_seven(h) /\ ~is_busted(h, sc) THEN s + BONUS ELSE s

\* mutant: the hand is returned but not emptied
reset_keep_hand(h) ==
    [active |-> TRUE, second_chance |-> FALSE, hand |-> h, discarded_hand |-> h]

\* Player.reset: the new fields and the returned list of discarded cards
reset(h) ==
    [active |-> TRUE, second_chance |-> FALSE, hand |-> <<>>, discarded_hand |-> h]

\* mutant: the number cards kept as they are
use_second_chance_keep(h) ==
    {other_cards(h) \o number_cards(h)}

\* Player.use_second_chance: the hands it can leave (list(set) has no fixed order)
use_second_chance(h) ==
    {other_cards(h) \o o : o \in Orderings(Range(number_cards(h)))}

\* mutant: the threshold itself does not win
won_game_strict(s) == s > WIN_SCORE

won_game(s) == s >= WIN_SCORE

-----------------------------------------------------------------------------
(* Controller helpers *)

\* checkRoundEnd(playerdict), the loop from player i on
RECURSIVE checkRoundEndFrom(_, _, _)
checkRoundEndFrom(i, act, hnd) ==
    IF i > NumPlayers THEN TRUE
    ELSE IF act[i] THEN FALSE
    ELSE IF has_seven(hnd[i]) THEN TRUE
    ELSE checkRoundEndFrom(i + 1, act, hnd)

\* mutant: the round ends only on seven distinct values
checkRoundEnd_seven(act, hnd) == \E p \in Players : has_seven(hnd[p])

checkRoundEnd(act, hnd) == checkRoundEndFrom(1, act, hnd)

NoMsg == [msg |-> "none"]
NoApplied == [card |-> "none", chooser |-> 0, target |-> 0, flip_target |-> 0]
NoDecision == <<>>
NoTurn == [player |-> 0, round |-> 0]
NoRound == [p \in Players |->
              [start |-> 0, busted |-> FALSE, seven |-> FALSE, busted_at_end |-> FALSE,
               active_at_end |-> FALSE, base |-> 0, end |-> 0, scored |-> <<>>]]

\* UI.__init__ lines 705-710: no loop and no queue yet, the manager thread
\* not started, nothing scheduled, nothing raised, nothing read
NoUI == [loop |-> FALSE, queue |-> <<>>, ready |-> <<>>, getters |-> 0,
         thread |-> "none", command |-> <<>>, presses |-> 0,
         raised |-> "none", read |-> <<>>]


-----------------------------------------------------------------------------
(* Initial state: main() after the players and the deck are set up *)

\* Shuffled decks of the model: samples of Deck.__init__ followed by
\* Deck.shuffle, cut to the cards a short session draws.  The last card of a
\* sequence is the first one drawn.
Reverse(s) == [i \in 1..Len(s) |-> s[Len(s) + 1 - i]]

N(v) == NumberCard(v)
X2 == ScoreModifierCard(2, FALSE)
Plus(v) == ScoreModifierCard(v, TRUE)

DrawOrders ==
    { \* second chance, then duplicates
      <<SecondChanceCard, N(5), N(5), N(5), N(3), X2, Plus(4)>>,
      \* flip three drawing [2, Freeze, 2]
      <<N(4), FlipThreeCard, N(2), FreezeCard, N(2), N(4)>>,
      \* nested flip three and a second chance in the stack
      <<FlipThreeCard, FlipThreeCard, SecondChanceCard, N(1), N(3), N(3), FreezeCard>>,
      \* modifiers and a freeze
      <<N(5), N(3), X2, Plus(4), FreezeCard, N(5)>>,
      \* 12 in the first round, then four doublings and an 8: 200 points
      <<N(12), X2, X2, X2, X2, N(8)>>,
      \* flip threes that build seven distinct values for one player, then an
      \* eighth value and one more flip three
      <<N(1), FlipThreeCard, N(2), N(3), N(4), FlipThreeCard, N(5), N(6), N(7),
        N(8), FlipThreeCard, FreezeCard>> }

Decks == {Reverse(o) : o \in DrawOrders}

Init ==
    /\ deck \in Decks
    /\ discard_pile = <<>>
    /\ hand = [p \in Players |-> <<>>]
    /\ score = [p \in Players |-> 0]
    /\ active = [p \in Players |-> TRUE]
    /\ second_chance = [p \in Players |-> FALSE]
    /\ currentplayerid = 0
    /\ round = 1
    /\ winner = FALSE
    /\ pc = "top"
    /\ frames = <<>>
    /\ out = NoMsg
    /\ total_cards = Len(deck)
    /\ ui = NoUI
    /\ round_start_score = [p \in Players |-> 0]
    /\ busted_in_round = [p \in Players |-> FALSE]
    /\ last_round = NoRound
    /\ applied = NoApplied
    /\ prompted = 0
    /\ decision = NoDecision
    /\ last_turn = NoTurn

-----------------------------------------------------------------------------
(* main(): what follows a consumed decision (lines 1067-1104) *)

Msg(m, p) == [msg |-> m, player |-> p]

\* mutant: the busted player is told so but stay() is not called
BustCheck_no_stay(p, hnd, act, sec, msg) ==
    IF is_busted(hnd[p], sec[p])
    THEN {[hand |-> hnd, active |-> act, second_chance |-> sec,
           out |-> Msg("busted and their round is over", p)]}
    ELSE {[hand |-> hnd, active |-> act, second_chance |-> sec, out |-> msg]}

\* lines 1067-1080: the bust check of the current player
BustCheck(p, hnd, act, sec, msg) ==
    IF is_busted(hnd[p], sec[p])
    THEN IF sec[p]
         THEN {[hand |-> [hnd EXCEPT ![p] = h2], active |-> act,
                second_chance |-> [sec EXCEPT ![p] = FALSE],
                out |-> Msg("busted and used a second chance", p)] :
                    h2 \in use_second_chance(hnd[p])}
         ELSE {[hand |-> hnd, active |-> [act EXCEPT ![p] = FALSE],
                second_chance |-> sec,
                out |-> Msg("busted and their round is over", p)]}
    ELSE {[hand |-> hnd, active |-> act, second_chance |-> sec, out |-> msg]}

\* mutant: update_score() called a second time for the player
RoundScore_twice(p, hnd, sec) ==
    LET base == update_score(hnd[p], sec[p], update_score(hnd[p], sec[p], score[p]))
        r == reset(hnd[p])
    IN  [base |-> base, active |-> r.active, second_chance |-> r.second_chance,
         hand |-> r.hand, end |-> add_bonus(r.hand, r.second_chance, base)]

\* lines 1085-1093, per player: update_score(), reset() (its returned cards
\* are not kept), add_bonus() on the player as reset() left it
RoundScore(p, hnd, sec) ==
    LET base == update_score(hnd[p], sec[p], score[p])
        r == reset(hnd[p])
    IN  [base |-> base, active |-> r.active, second_chance |-> r.second_chance,
         hand |-> r.hand, end |-> add_bonus(r.hand, r.second_chance, base)]

AfterDecision(hnd, act, sec, msg) ==
    \E b \in BustCheck(currentplayerid, hnd, act, sec, msg) :
      /\ last_turn' = [player |-> currentplayerid, round |-> round]
      /\ IF checkRoundEnd(b.active, b.hand)
          THEN LET rs == [p \in Players |-> RoundScore(p, b.hand, b.second_chance)]
               IN  /\ score' = [p \in Players |-> rs[p].end]
                   /\ hand' = [p \in Players |-> rs[p].hand]
                   /\ active' = [p \in Players |-> rs[p].active]
                   /\ second_chance' = [p \in Players |-> rs[p].second_chance]
                   /\ currentplayerid' = 0
                   /\ round' = round + 1
                   /\ winner' = \E p \in Players : won_game(rs[p].end)
                   /\ pc' = IF \E p \in Players : won_game(rs[p].end) THEN "exit" ELSE "top"
                   /\ out' = [msg |-> "Round over! Calculating scores..."]
                   /\ last_round' =
                          [p \in Players |->
                              [start |-> round_start_score[p],
                               busted |-> busted_in_round[p]
                                            \/ is_busted(b.hand[p], b.second_chance[p]),
                               seven |-> has_seven(b.hand[p]),
                               busted_at_end |-> is_busted(b.hand[p], b.second_chance[p]),
                               active_at_end |-> b.active[p],
                               base |-> rs[p].base,
                               end |-> rs[p].end,
                               scored |-> b.hand[p]]]
                   /\ round_start_score' = [p \in Players |-> rs[p].end]
                   /\ busted_in_round' = [p \in Players |-> FALSE]
          ELSE /\ hand' = b.hand
               /\ active' = b.active
               /\ second_chance' = b.second_chance
               /\ out' = b.out
               /\ pc' = "top"
               /\ busted_in_round' =
                      [p \in Players |->
                          busted_in_round[p] \/ is_busted(b.hand[p], b.second_chance[p])]
               /\ UNCHANGED <<score, currentplayerid, round, winner, last_round,
                              round_start_score>>

SeenBusted(hnd, sec) ==
    [p \in Players |-> busted_in_round[p] \/ is_busted(hnd[p], sec[p])]

-----------------------------------------------------------------------------
(* main(): the turn loop *)

\* mutant: the next player is prompted whether active or not
LoopTop_noskip ==
    /\ pc = "top"
    /\ ~winner
    /\ round <= MaxRound
    /\ LET next == IF currentplayerid >= NumPlayers THEN 1 ELSE currentplayerid + 1
       IN  /\ currentplayerid' = next
           /\ pc' = "decide"
           /\ out' = Msg("what is your decision? (hit/stay/end):", next)
           /\ prompted' = next
    /\ last_round' = NoRound
    /\ applied' = NoApplied
    /\ decision' = NoDecision
    /\ UNCHANGED <<deck, discard_pile, hand, score, active, second_chance, round,
                   winner, frames, total_cards, ui, round_start_score, busted_in_round,
                   last_turn>>

\* lines 987-996: next player id, inactive players skipped
LoopTop ==
    /\ pc = "top"
    /\ ~winner
    /\ round <= MaxRound
    /\ LET next == IF currentplayerid >= NumPlayers THEN 1 ELSE currentplayerid + 1
       IN  /\ currentplayerid' = next
           /\ pc' = IF ~active[next] THEN "top" ELSE "decide"
           /\ out' = IF ~active[next] THEN out
                     ELSE Msg("what is your decision? (hit/stay/end):", next)
           /\ prompted' = IF ~active[next] THEN prompted ELSE next
    /\ last_round' = NoRound
    /\ applied' = NoApplied
    /\ decision' = NoDecision
    /\ UNCHANGED <<deck, discard_pile, hand, score, active, second_chance, round,
                   winner, frames, total_cards, ui, round_start_score, busted_in_round,
                   last_turn>>

\* mutant: the turn is not redone, the next player is prompted
Redo_advance ==
    /\ currentplayerid' = currentplayerid
    /\ pc' = "top"

\* mutant: the cycle restarts at player 1
Redo_restart ==
    /\ currentplayerid' = 0
    /\ pc' = "top"

\* lines 1046-1047 and 1064-1065: redo the turn of the current player
Redo ==
    /\ currentplayerid' = currentplayerid - 1
    /\ pc' = "top"

\* lines 1038-1047 with Player.hit (444-472)
Hit ==
    /\ pc = "decide"
    /\ \E low \in {lower(d) : d \in {x \in DecisionInputs : lower(x) = <<"h", "i", "t">>}} :
          decision' = <<low>>
    /\ LET p == currentplayerid
           t == take_card(deck)
       IN  IF ~active[p] \/ t.card = <<>>
           THEN \* hit() returned False
                IF Len(deck) = 0
                THEN LET r == return_cards(deck, discard_pile)
                     IN  /\ deck' \in Shuffles(r.cards)
                         /\ discard_pile' = r.returned
                         /\ out' = [msg |-> "Deck was empty. Discard pile shuffled"]
                         /\ Redo
                         /\ UNCHANGED <<hand, score, active, second_chance, round, winner,
                                        frames, round_start_score, busted_in_round,
                                        last_round, last_turn>>
                ELSE /\ AfterDecision(hand, active, second_chance, out)
                     /\ UNCHANGED <<deck, discard_pile, frames>>
           ELSE LET card == t.card[1]
                    hnd == [hand EXCEPT ![p] = Append(@, card)]
                IN  /\ deck' = t.cards
                    /\ discard_pile' = discard_pile
                    /\ IF IsActionCard(card)
                       THEN /\ frames' = <<[fn |-> "take_action", self |-> p, card |-> card]>>
                            /\ pc' = "target"
                            /\ hand' = hnd
                            /\ out' = Msg("Select a player to target with the action card:", p)
                            /\ busted_in_round' = SeenBusted(hnd, second_chance)
                            /\ UNCHANGED <<score, active, second_chance, currentplayerid,
                                           round, winner, round_start_score, last_round, last_turn>>
                       ELSE /\ frames' = frames
                            /\ AfterDecision(hnd, active, second_chance, Msg("drew the card", p))
    /\ UNCHANGED <<total_cards, ui, prompted, applied>>

\* lines 1050-1055
Stay ==
    /\ pc = "decide"
    /\ \E low \in {lower(d) : d \in {x \in DecisionInputs : lower(x) = <<"s", "t", "a", "y">>}} :
          decision' = <<low>>
    /\ AfterDecision(hand, [active EXCEPT ![currentplayerid] = FALSE], second_chance,
                     Msg("stood and their round is over", currentplayerid))
    /\ UNCHANGED <<deck, discard_pile, frames, total_cards, ui, prompted, applied>>

IsEnd(d) ==
    \/ lower(d) = <<"e", "n", "d">>
    \/ lower(d) = <<"e", "n", "d", "g", "a", "m", "e">>
    \/ lower(d) = <<"e", "n", "d", " ", "g", "a", "m", "e">>

\* lines 1057-1059
End ==
    /\ pc = "decide"
    /\ \E low \in {lower(d) : d \in {x \in DecisionInputs : IsEnd(x)}} :
          decision' = <<low>>
    /\ pc' = "exit"
    /\ UNCHANGED <<deck, discard_pile, hand, score, active, second_chance,
                   currentplayerid, round, winner, frames, out, total_cards, ui, prompted,
                   round_start_score, busted_in_round, last_round, last_turn, applied>>

\* lines 1061-1065
Invalid ==
    /\ pc = "decide"
    /\ \E low \in {lower(d) : d \in {x \in DecisionInputs :
                                          /\ lower(x) # <<"h", "i", "t">>
                                          /\ lower(x) # <<"s", "t", "a", "y">>
                                          /\ ~IsEnd(x)}} :
          decision' = <<low>>
    /\ out' = [msg |-> "Invalid decision. Try again: "]
    /\ Redo
    /\ UNCHANGED <<deck, discard_pile, hand, score, active, second_chance, round,
                   winner, frames, total_cards, ui, prompted, round_start_score, busted_in_round,
                   last_round, last_turn, applied>>

-----------------------------------------------------------------------------
(* Player.take_action and the cards' action() *)

Top == frames[Len(frames)]

\* the action has returned to take_action, which returns to its caller:
\* Player.hit (no frame left) or the while loop of a FlipThreeCard.action
Return(fr, hnd, act, sec, msg) ==
    IF fr = <<>>
    THEN /\ frames' = <<>>
         /\ AfterDecision(hnd, act, sec, msg)
    ELSE /\ frames' = fr
         /\ pc' = "resolve"
         /\ hand' = hnd
         /\ active' = act
         /\ second_chance' = sec
         /\ out' = msg
         /\ busted_in_round' = SeenBusted(hnd, sec)
         /\ UNCHANGED <<score, currentplayerid, round, winner, last_round, last_turn,
                        round_start_score>>

\* mutant: an inactive player accepted as a target
ValidTarget_inactive(inp) ==
    isdigit(inp) /\ ~IntRaises(inp) /\ int(inp) \in Players

\* lines 484-507: a numeric id of an active player of self._players
ValidTarget(inp) ==
    isdigit(inp) /\ ~IntRaises(inp) /\ int(inp) \in Players /\ active[int(inp)]

SelectTarget ==
    /\ pc = "target"
    /\ \E inp \in TargetInputs :
          /\ ValidTarget(inp)
          /\ LET id == int(inp)
                 f == Top
                 callers == SubSeq(frames, 1, Len(frames) - 1)
             IN  /\ applied' = [card |-> f.card.cls, chooser |-> f.self, target |-> id,
                                flip_target |-> IF callers = <<>> THEN 0
                                                ELSE callers[Len(callers)].target]
                 /\ CASE f.card.cls = "FreezeCard" ->
                            Return(callers, hand, [active EXCEPT ![id] = FALSE],
                                   second_chance, Msg("has been frozen", id))
                      [] f.card.cls = "SecondChanceCard" ->
                            Return(callers, hand, active,
                                   [second_chance EXCEPT ![id] = TRUE],
                                   Msg("has received a Second Chance!", id))
                      [] f.card.cls = "FlipThreeCard" ->
                            /\ frames' = Append(frames, [fn |-> "action", target |-> id,
                                                         i |-> 0, stack |-> <<>>])
                            /\ pc' = "flip"
                            /\ UNCHANGED <<hand, score, active, second_chance,
                                           currentplayerid, round, winner, out,
                                           round_start_score, busted_in_round, last_round, last_turn>>
    /\ UNCHANGED <<deck, discard_pile, total_cards, ui, prompted, decision>>

\* lines 487-503: the re-prompts
RejectTarget ==
    /\ pc = "target"
    /\ \E inp \in TargetInputs :
          /\ ~ValidTarget(inp)
          /\ ~(isdigit(inp) /\ IntRaises(inp))
          /\ out' = IF ~isdigit(inp)
                    THEN [msg |-> "Invalid input. Please enter a numeric player ID."]
                    ELSE IF int(inp) \notin Players
                    THEN [msg |-> "No player found with ID", id |-> int(inp)]
                    ELSE [msg |-> "is not active. Please choose another player.",
                          id |-> int(inp)]
    /\ UNCHANGED <<deck, discard_pile, hand, score, active, second_chance,
                   currentplayerid, round, winner, pc, frames, total_cards, ui, prompted, decision,
                   round_start_score, busted_in_round, last_round, last_turn, applied>>

\* line 491: int() raises ValueError on a digit string that is not decimal;
\* nothing catches it, the engine coroutine and asyncio.run(main()) end with it
TargetValueError ==
    /\ pc = "target"
    /\ {inp \in TargetInputs : isdigit(inp) /\ IntRaises(inp)} # {}
    /\ pc' = "crashed"
    /\ out' = [msg |-> "ValueError"]
    /\ UNCHANGED <<deck, discard_pile, hand, score, active, second_chance,
                   currentplayerid, round, winner, frames, total_cards, ui, prompted, decision,
                   round_start_score, busted_in_round, last_round, last_turn, applied>>

\* lines 244-271: one iteration of the draw loop of FlipThreeCard.action
FlipDraw ==
    /\ pc = "flip"
    /\ LET f == Top
           tg == f.target
           t == take_card(deck)
       IN  IF t.card = <<>>
           THEN /\ pc' = "resolve"
                /\ UNCHANGED <<deck, hand, active, second_chance, frames, out,
                               busted_in_round>>
           ELSE LET card == t.card[1]
                    last == f.i + 1 >= FLIP_DRAWS
                IN  /\ deck' = t.cards
                    /\ IF IsActionCard(card)
                       THEN /\ frames' = [frames EXCEPT ![Len(frames)] =
                                            [f EXCEPT !.i = @ + 1, !.stack = Append(@, card)]]
                            /\ pc' = IF last THEN "resolve" ELSE "flip"
                            /\ UNCHANGED <<hand, active, second_chance, out, busted_in_round>>
                       ELSE LET hnd == [hand EXCEPT ![tg] = Append(@, card)]
                                outcomes ==
                                    IF is_busted(hnd[tg], second_chance[tg])
                                    THEN IF second_chance[tg]
                                         THEN {[hand |-> [hnd EXCEPT ![tg] = h2],
                                                active |-> active,
                                                second_chance |-> [second_chance EXCEPT ![tg] = FALSE],
                                                out |-> Msg("busted and used a second chance", tg),
                                                brk |-> FALSE] : h2 \in use_second_chance(hnd[tg])}
                                         ELSE {[hand |-> hnd,
                                                active |-> [active EXCEPT ![tg] = FALSE],
                                                second_chance |-> second_chance,
                                                out |-> Msg("busted and their round is over", tg),
                                                brk |-> TRUE]}
                                    ELSE {[hand |-> hnd, active |-> active,
                                           second_chance |-> second_chance, out |-> out,
                                           brk |-> FALSE]}
                            IN  \E o \in outcomes :
                                   /\ hand' = o.hand
                                   /\ active' = o.active
                                   /\ second_chance' = o.second_chance
                                   /\ out' = o.out
                                   /\ busted_in_round' = SeenBusted(o.hand, o.second_chance)
                                   /\ frames' = [frames EXCEPT ![Len(frames)].i = @ + 1]
                                   /\ pc' = IF o.brk \/ has_seven(o.hand[tg]) \/ last
                                            THEN "resolve" ELSE "flip"
    /\ UNCHANGED <<discard_pile, score, currentplayerid, round, winner, total_cards, ui, prompted, decision,
                   round_start_score, last_round, last_turn, applied>>

\* mutant: the stacked card read but left on the stack
Resolve_keep ==
    /\ pc = "resolve"
    /\ LET f == Top
       IN  IF f.stack = <<>>
           THEN Return(SubSeq(frames, 1, Len(frames) - 2), hand, active, second_chance, out)
           ELSE LET action_card == f.stack[Len(f.stack)]
                IN  /\ frames' = Append(
                           frames,
                           [fn |-> "take_action", self |-> f.target, card |-> action_card])
                    /\ pc' = "target"
                    /\ out' = Msg("Select a player to target with the action card:", f.target)
                    /\ UNCHANGED <<hand, score, active, second_chance, currentplayerid,
                                   round, winner, round_start_score, busted_in_round,
                                   last_round, last_turn>>
    /\ UNCHANGED <<deck, discard_pile, total_cards, ui, prompted, decision, applied>>

\* the while loop taking the first stacked card instead of the last
Resolve_fifo ==
    /\ pc = "resolve"
    /\ LET f == Top
       IN  IF f.stack = <<>>
           THEN Return(SubSeq(frames, 1, Len(frames) - 2), hand, active, second_chance, out)
           ELSE LET action_card == f.stack[1]
                IN  /\ frames' = Append(
                           [frames EXCEPT ![Len(frames)].stack = SubSeq(@, 2, Len(@))],
                           [fn |-> "take_action", self |-> f.target, card |-> action_card])
                    /\ pc' = "target"
                    /\ out' = Msg("Select a player to target with the action card:", f.target)
                    /\ UNCHANGED <<hand, score, active, second_chance, currentplayerid,
                                   round, winner, round_start_score, busted_in_round,
                                   last_round, last_turn>>
    /\ UNCHANGED <<deck, discard_pile, total_cards, ui, prompted, decision, applied>>

\* lines 273-281: one test of the while loop over action_card_stack
Resolve ==
    /\ pc = "resolve"
    /\ LET f == Top
       IN  IF f.stack = <<>>
           THEN Return(SubSeq(frames, 1, Len(frames) - 2), hand, active, second_chance, out)
           ELSE LET action_card == f.stack[Len(f.stack)]
                IN  /\ frames' = Append(
                           [frames EXCEPT ![Len(frames)].stack = SubSeq(@, 1, Len(@) - 1)],
                           [fn |-> "take_action", self |-> f.target, card |-> action_card])
                    /\ pc' = "target"
                    /\ out' = Msg("Select a player to target with the action card:", f.target)
                    /\ UNCHANGED <<hand, score, active, second_chance, currentplayerid,
                                   round, winner, round_start_score, busted_in_round,
                                   last_round, last_turn>>
    /\ UNCHANGED <<deck, discard_pile, total_cards, ui, prompted, decision, applied>>

-----------------------------------------------------------------------------
(* main(): after the loop (lines 1111-1137) *)

\* sorted(playerids.values(), key=score, reverse=True): stable, so players of
\* equal score keep their insertion (id) order
rankings(sc) ==
    CHOOSE r \in Orderings(Players) :
        \A i, j \in 1..NumPlayers :
            i < j => \/ sc[r[i]] > sc[r[j]]
                     \/ sc[r[i]] = sc[r[j]] /\ r[i] < r[j]

\* Player defines no __eq__: rankings[0] != rankings[1] compares the objects
PlayerNotEqual(a, b) == a # b

\* mutant: the top of the ranking is announced whether or not a player won
announcement_top(sc, won) ==
    LET r == rankings(sc)
    IN  [msg |-> "has won the game", players |-> {r[1]}, rankings |-> r]

announcement(sc, won) ==
    LET r == rankings(sc)
    IN  IF ~won
        THEN [msg |-> "Game ended early. No winner.", players |-> {}, rankings |-> r]
        ELSE IF PlayerNotEqual(r[1], r[2])
        THEN [msg |-> "has won the game", players |-> {r[1]}, rankings |-> r]
        ELSE [msg |-> "have tied for first place",
              players |-> {p \in Players : sc[p] = sc[r[1]]}, rankings |-> r]

GameOver ==
    /\ pc = "exit"
    /\ out' = announcement(score, winner)
    /\ pc' = "done"
    /\ UNCHANGED <<deck, discard_pile, hand, score, active, second_chance,
                   currentplayerid, round, winner, frames, total_cards, ui, prompted, decision,
                   round_start_score, busted_in_round, last_round, last_turn, applied>>

Next ==
    \/ LoopTop
    \/ Hit
    \/ Stay
    \/ End
    \/ Invalid
    \/ SelectTarget
    \/ RejectTarget
    \/ TargetValueError
    \/ FlipDraw
    \/ Resolve
    \/ GameOver

Spec == Init /\ [][Next]_vars


-----------------------------------------------------------------------------
(* Claims about the game session *)

RECURSIVE SumLen(_, _)
SumLen(i, hnd) == IF i > NumPlayers THEN 0 ELSE Len(hnd[i]) + SumLen(i + 1, hnd)

AtPrompt == pc = "decide"

\* C1: the round ends as soon as any player holds seven distinct number
\* values: no decision is prompted while some player holds seven.
C1_RoundEndsOnSeven ==
    AtPrompt => \A p \in Players : ~has_seven(hand[p])

\* C2: at round end every player whose final hand holds seven distinct
\* values and who is not busted gains the 15-point bonus on top of the
\* update_score() result.
C2_BonusOnSeven ==
    \A p \in Players :
        (last_round[p].seven /\ ~last_round[p].busted_at_end)
            => last_round[p].end = last_round[p].base + BONUS

DuplicateDraw ==
    /\ pc = "decide"
    /\ active[currentplayerid]
    /\ Len(deck) > 0
    /\ IsNumberCard(deck[Len(deck)])
    /\ deck[Len(deck)] \in Range(hand[currentplayerid])
    /\ deck' = SubSeq(deck, 1, Len(deck) - 1)
    /\ round' = round

\* C3: a hit that gives the current player a duplicate number value while
\* they hold a second chance consumes the second chance and collapses the
\* duplicates, the player staying active; without a second chance the
\* duplicate draw busts the player.
C3_SecondChanceConsumed ==
    [][DuplicateDraw =>
          LET p == currentplayerid
          IN  IF second_chance[p]
              THEN ~second_chance'[p] /\ active'[p] /\ ~HasDuplicate(hand'[p])
              ELSE ~active'[p]]_vars

\* C4: deck + discard pile + hands always hold the cards the deck was
\* constructed with (checked between decisions, when no card is in flight).
C4_CardConservation ==
    pc \in {"top", "decide"}
        => Len(deck) + Len(discard_pile) + SumLen(1, hand) = total_cards

\* C6: an action card's effect is never applied to the player who selected
\* the target.
C6_NoSelfTarget ==
    applied.card # "none" => applied.target # applied.chooser

\* C7: an action card stacked during a FlipThree is resolved against the
\* target of that FlipThree.
C7_StackedSameTarget ==
    applied.flip_target # 0 => applied.target = applied.flip_target

\* C8: whenever a target is requested, some player is active.
C8_TargetExists ==
    pc = "target" => \E p \in Players : active[p]

\* C10: a player who busted during a round leaves that round's round-end
\* processing with the score they had when the round started.
C10_BustedNoScore ==
    \A p \in Players :
        last_round[p].busted => last_round[p].end = last_round[p].start

C10_Witness ==
    /\ round > 1
    /\ \E p, q \in Players :
          /\ last_round[p].busted
          /\ last_round[p].start > 0
          /\ total_addition(last_round[p].scored) > 0
          /\ ~last_round[q].busted
          /\ last_round[q].end > last_round[q].start


-----------------------------------------------------------------------------
(* Player methods called on one player object (player 1), from every        *)
(* bounded state of that object                                             *)

CardUniverse == {N(3), N(5), X2, Plus(4), FreezeCard}

RECURSIVE SeqsUpTo(_, _)
SeqsUpTo(S, n) ==
    IF n = 0 THEN {<<>>}
    ELSE LET shorter == SeqsUpTo(S, n - 1)
         IN  shorter \cup {Append(h, c) : h \in {x \in shorter : Len(x) = n - 1}, c \in S}

\* the player object the methods are called on: the first id
Self == CHOOSE p \in Players : p - 1 \notin Players

PlayerInit ==
    /\ hand \in {[p \in Players |-> IF p = Self THEN h ELSE <<>>] :
                    h \in SeqsUpTo(CardUniverse, MaxHand)}
    /\ score \in {[p \in Players |-> IF p = Self THEN s ELSE 0] : s \in 0..MaxScore}
    /\ active \in {[p \in Players |-> IF p = Self THEN a ELSE TRUE] : a \in BOOLEAN}
    /\ second_chance \in {[p \in Players |-> IF p = Self THEN a ELSE FALSE] : a \in BOOLEAN}
    /\ deck = <<>>
    /\ discard_pile = <<>>
    /\ currentplayerid = 0
    /\ round = 1
    /\ winner = FALSE
    /\ pc = "player"
    /\ frames = <<>>
    /\ out = NoMsg
    /\ total_cards = 0
    /\ ui = NoUI
    /\ round_start_score = [p \in Players |-> 0]
    /\ busted_in_round = [p \in Players |-> FALSE]
    /\ last_round = NoRound
    /\ applied = NoApplied
    /\ prompted = 0
    /\ decision = NoDecision
    /\ last_turn = NoTurn

Called(method) ==
    /\ pc = "player"
    /\ pc' = "called"
    /\ out' = [msg |-> "call", method |-> method,
                before |-> [hand |-> hand[Self], score |-> score[Self],
                            active |-> active[Self],
                            second_chance |-> second_chance[Self]]]
    /\ UNCHANGED <<deck, discard_pile, currentplayerid, round, winner, frames,
                   total_cards, ui, prompted, decision, round_start_score, busted_in_round,
                   last_round, last_turn, applied>>

CallUpdateScore ==
    /\ Called("update_score")
    /\ score' = [score EXCEPT ![Self] = update_score(hand[Self], second_chance[Self], @)]
    /\ UNCHANGED <<hand, active, second_chance>>

CallAddBonus ==
    /\ Called("add_bonus")
    /\ score' = [score EXCEPT ![Self] = add_bonus(hand[Self], second_chance[Self], @)]
    /\ UNCHANGED <<hand, active, second_chance>>

CallReset ==
    /\ Called("reset")
    /\ LET r == reset(hand[Self])
       IN  /\ hand' = [hand EXCEPT ![Self] = r.hand]
           /\ active' = [active EXCEPT ![Self] = r.active]
           /\ second_chance' = [second_chance EXCEPT ![Self] = r.second_chance]
    /\ UNCHANGED score

\* mutant: stay() also giving up the second chance
CallStay_drop_chance ==
    /\ Called("stay")
    /\ active' = [active EXCEPT ![Self] = FALSE]
    /\ second_chance' = [second_chance EXCEPT ![Self] = FALSE]
    /\ UNCHANGED <<hand, score>>

CallStay ==
    /\ Called("stay")
    /\ active' = [active EXCEPT ![Self] = FALSE]
    /\ UNCHANGED <<hand, score, second_chance>>

CallAddSecondChance ==
    /\ Called("add_second_chance")
    /\ second_chance' = [second_chance EXCEPT ![Self] = TRUE]
    /\ UNCHANGED <<hand, score, active>>

CallUseSecondChance ==
    /\ Called("use_second_chance")
    /\ second_chance' = [second_chance EXCEPT ![Self] = FALSE]
    /\ \E h2 \in use_second_chance(hand[Self]) : hand' = [hand EXCEPT ![Self] = h2]
    /\ UNCHANGED <<score, active>>

PlayerNext ==
    \/ CallUpdateScore
    \/ CallAddBonus
    \/ CallReset
    \/ CallStay
    \/ CallAddSecondChance
    \/ CallUseSecondChance

PlayerSpec == PlayerInit /\ [][PlayerNext]_vars

\* the claim's M and A, counted card by card over the positions of the hand
RECURSIVE ProductOver(_, _)
ProductOver(h, I) ==
    IF I = {} THEN 1
    ELSE LET i == CHOOSE x \in I : TRUE IN h[i].value * ProductOver(h, I \ {i})

RECURSIVE SumOver(_, _)
SumOver(h, I) ==
    IF I = {} THEN 0
    ELSE LET i == CHOOSE x \in I : TRUE IN h[i].value + SumOver(h, I \ {i})

Multipliers(h) == {i \in 1..Len(h) : h[i].cls = "ScoreModifierCard" /\ ~h[i].is_addition}
Additives(h) == {i \in 1..Len(h) : h[i].cls = "ScoreModifierCard" /\ h[i].is_addition}
Numbers(h) == {i \in 1..Len(h) : h[i].cls = "NumberCard"}

ScenarioHand == <<N(5), N(3), X2, Plus(4)>>

\* C9: update_score() of a non-busted player sets score' = score * M + A,
\* M the product of the multiplier cards (1 if none), A the sum of the number
\* cards and the additive modifiers; action cards add nothing; the hand
\* [5, 3, x2, +4] gives 12 from 0 and 32 from 10.
C9_UpdateScoreFormula ==
    [][(pc = "player" /\ pc' = "called" /\ out'.method = "update_score"
          /\ ~is_busted(hand[Self], second_chance[Self]))
       => /\ score'[Self] = score[Self] * ProductOver(hand[Self], Multipliers(hand[Self]))
                            + SumOver(hand[Self], Numbers(hand[Self]))
                            + SumOver(hand[Self], Additives(hand[Self]))
          /\ (hand[Self] = ScenarioHand /\ score[Self] = 0 => score'[Self] = 12)
          /\ (hand[Self] = ScenarioHand /\ score[Self] = 10 => score'[Self] = 32)]_vars

C9_Witness ==
    /\ pc = "called"
    /\ out.method = "update_score"
    /\ hand[Self] = ScenarioHand
    /\ score[Self] = 32

-----------------------------------------------------------------------------
(* The end of main() from every bounded final score *)

FinalScores == {0, 150, 200, 212}

RankInit ==
    /\ score \in [Players -> FinalScores]
    /\ winner = \E p \in Players : won_game(score[p])
    /\ pc = "exit"
    /\ hand = [p \in Players |-> <<>>]
    /\ active = [p \in Players |-> TRUE]
    /\ second_chance = [p \in Players |-> FALSE]
    /\ deck = <<>>
    /\ discard_pile = <<>>
    /\ currentplayerid = 0
    /\ round = 2
    /\ frames = <<>>
    /\ out = NoMsg
    /\ total_cards = 0
    /\ ui = NoUI
    /\ round_start_score = score
    /\ busted_in_round = [p \in Players |-> FALSE]
    /\ last_round = NoRound
    /\ applied = NoApplied
    /\ prompted = 0
    /\ decision = NoDecision
    /\ last_turn = NoTurn

RankSpec == RankInit /\ [][GameOver]_vars

TopScorers == {p \in Players : \A q \in Players : score[q] <= score[p]}

\* C5: at game end with a winner declared, two or more players sharing the
\* highest score are all reported as joint winners, a single top scorer is
\* announced alone, and the ranking lists the players by score descending.
C5_TieReported ==
    (pc = "done" /\ winner)
        => /\ out.players = TopScorers
           /\ (out.msg = "have tied for first place") = (Cardinality(TopScorers) >= 2)
           /\ \A i, j \in 1..NumPlayers :
                 i < j => score[out.rankings[i]] >= score[out.rankings[j]]

-----------------------------------------------------------------------------
(* Claims about the turn loop of main() *)

RoundOver == out.msg = "Round over! Calculating scores..."

NoFlipThreeHeld ==
    \A p \in Players : \A i \in 1..Len(hand[p]) : hand[p][i].cls # "FlipThreeCard"

\* C11: a player left with two number cards of equal value and no second
\* chance is inactive at every later decision prompt of the round, and no
\* decision prompt of that round goes to that player.
C11_BustForcesStay ==
    AtPrompt =>
        /\ active[currentplayerid]
        /\ \A p \in Players :
              (busted_in_round[p] \/ (HasDuplicate(hand[p]) /\ ~second_chance[p]))
                  => ~active[p] /\ p # currentplayerid

\* a later prompt of the round in which a hit (no flip three was drawn) busted
\* a player
C11_Witness ==
    /\ AtPrompt
    /\ NoFlipThreeHeld
    /\ \E p \in Players :
          /\ busted_in_round[p]
          /\ HasDuplicate(hand[p])
          /\ ~second_chance[p]
          /\ ~active[p]
          /\ p # currentplayerid

\* C12: round-end processing runs only when every player is inactive or
\* some player holds seven distinct number values, and no prompt (decision or
\* target) is issued while every player is inactive.
C12_RoundEndTrigger ==
    /\ RoundOver =>
          \/ \A p \in Players : ~last_round[p].active_at_end
          \/ \E p \in Players : last_round[p].seven
    /\ (\A p \in Players : ~active[p]) => pc \notin {"decide", "target"}

\* the score update_score() leaves, from the score s, for a hand h scored
\* once, counted card by card
ScoredOnce(h, busted, s) ==
    IF busted THEN s
    ELSE s * ProductOver(h, Multipliers(h)) + SumOver(h, Numbers(h))
           + SumOver(h, Additives(h))

C14_RoundAdvance ==
    /\ [](winner <=> \E p \in Players : score[p] >= WIN_SCORE)
    /\ [](winner => pc \in {"exit", "done"})
    /\ [][/\ winner' # winner => round' # round
          /\ round' # round =>
                /\ round' = round + 1
                /\ currentplayerid' = 0
                /\ pc' = IF \E p \in Players : score'[p] >= WIN_SCORE
                         THEN "exit" ELSE "top"
          /\ (pc = "top" /\ RoundOver) =>
                /\ pc' = "decide"
                /\ currentplayerid' = 1
                /\ out' = Msg("what is your decision? (hit/stay/end):", 1)]_vars

\* the game is over with a winner at exactly 200 points
C14_Witness ==
    /\ pc = "done"
    /\ winner
    /\ round > 2
    /\ \E p \in Players : score[p] = WIN_SCORE
    /\ out.msg = "has won the game"

\* C15: leaving the loop without a winner (an end decision) changes no
\* score, hand, flag or round number, and the game then reports that it ended
\* early, with no winner, whatever the scores are.
C15_EndDecision ==
    [][/\ (pc = "decide" /\ pc' = "exit" /\ ~winner') =>
             /\ decision' \in {<<lower(d)>> : d \in {x \in DecisionInputs : IsEnd(x)}}
             /\ UNCHANGED <<score, hand, active, second_chance, round, winner, deck,
                            discard_pile, last_round>>
       /\ (pc = "decide" /\ decision' # decision /\ IsEnd(decision'[1])) =>
             pc' = "exit" /\ ~winner'
       /\ (pc = "exit" /\ ~winner) =>
             /\ pc' = "done"
             /\ out'.msg = "Game ended early. No winner."
             /\ out'.players = {}
             /\ score' = score]_vars

\* the game was ended in its second round, with points scored and cards held
C15_Witness ==
    /\ pc = "done"
    /\ ~winner
    /\ out.msg = "Game ended early. No winner."
    /\ decision = << <<"e", "n", "d">> >>
    /\ round > 1
    /\ \E p \in Players : score[p] > 0
    /\ \E p \in Players : hand[p] # <<>>

RECURSIVE Count(_, _)
Count(c, s) == IF s = <<>> THEN 0
               ELSE (IF Head(s) = c THEN 1 ELSE 0) + Count(c, Tail(s))

SameCards(a, b) == \A c \in Range(a) \cup Range(b) : Count(c, a) = Count(c, b)

DeckWasEmpty == out.msg = "Deck was empty. Discard pile shuffled"

\* C16: a hit on an empty deck moves the discard pile into the deck, in some
\* order, empties the discard pile, changes no hand, score or flag, and the
\* next prompt goes to the player who was prompted before.
C16_EmptyDeckRedo ==
    [][/\ (pc = "decide" /\ decision' = << <<"h", "i", "t">> >> /\ deck = <<>>) =>
             /\ DeckWasEmpty'
             /\ SameCards(deck', discard_pile)
             /\ discard_pile' = <<>>
             /\ pc' = "top"
             /\ UNCHANGED <<hand, score, active, second_chance, round, winner>>
       /\ (pc = "top" /\ DeckWasEmpty) =>
             /\ pc' = "decide"
             /\ currentplayerid' = prompted
             /\ out' = Msg("what is your decision? (hit/stay/end):", prompted)]_vars

\* the hit of a player who holds cards found the deck empty
C16_Witness ==
    /\ pc = "top"
    /\ DeckWasEmpty
    /\ deck = <<>>
    /\ decision = << <<"h", "i", "t">> >>
    /\ hand[prompted] # <<>>

\* the k-th player after player i in cyclic order
After(i, k) == ((i - 1 + k) % NumPlayers) + 1

\* the first active player after player i in cyclic order
FirstActiveAfter(i) ==
    After(i, CHOOSE k \in 1..NumPlayers :
                 /\ active[After(i, k)]
                 /\ \A j \in 1..(k - 1) : ~active[After(i, j)])

\* C17, as stated: every decision prompt goes to an active player of 1..N,
\* the first active one after the player of the last consumed turn.
C17_CyclicOrder ==
    AtPrompt =>
        /\ currentplayerid \in Players
        /\ active[currentplayerid]
        /\ last_turn.player # 0 => currentplayerid = FirstActiveAfter(last_turn.player)

\* C17, amended: every decision prompt goes to an active player of 1..N: the
\* first active one after the player of the last consumed turn when that turn
\* was of this round, and player 1 when that turn ended the previous round or
\* no turn was consumed yet.
C17_CyclicOrderInRound ==
    AtPrompt =>
        /\ currentplayerid \in Players
        /\ active[currentplayerid]
        /\ prompted = currentplayerid
        /\ IF last_turn.round = round
           THEN currentplayerid = FirstActiveAfter(last_turn.player)
           ELSE currentplayerid = 1

\* the prompt wrapped around past an inactive player
C17_Witness ==
    /\ AtPrompt
    /\ last_turn.round = round
    /\ currentplayerid < last_turn.player
    /\ ~active[After(last_turn.player, 1)]
    /\ currentplayerid # After(last_turn.player, 1)

Hit3 == <<"h", "i", "t">>
Stay4 == <<"s", "t", "a", "y">>
End3 == <<"e", "n", "d">>

PromptAgain ==
    /\ pc' = "decide"
    /\ currentplayerid' = prompted
    /\ out' = Msg("what is your decision? (hit/stay/end):", prompted)

\* C18, as stated: a decision that, lower-cased, is none of hit, stay and end
\* changes no game state and is followed by a prompt to the same player.
C18_InvalidDecision ==
    [][/\ (pc = "decide" /\ decision' # <<>> /\ decision'[1] \notin {Hit3, Stay4, End3}) =>
             /\ pc' = "top"
             /\ UNCHANGED <<deck, discard_pile, hand, score, active, second_chance,
                            round, winner>>
       /\ (pc = "top" /\ decision # <<>> /\ decision[1] \notin {Hit3, Stay4, End3}) =>
             PromptAgain]_vars

\* C18, amended: a decision that, lower-cased, is none of hit, stay, end,
\* endgame and end game changes no game state and is followed by a prompt to
\* the same player.
C18_UnrecognizedDecision ==
    [][/\ (pc = "decide" /\ decision' # <<>>
            /\ decision'[1] \notin {Hit3, Stay4} /\ ~IsEnd(decision'[1])) =>
             /\ pc' = "top"
             /\ UNCHANGED <<deck, discard_pile, hand, score, active, second_chance,
                            round, winner>>
       /\ (pc = "top" /\ decision # <<>>
            /\ decision[1] \notin {Hit3, Stay4} /\ ~IsEnd(decision[1])) =>
             PromptAgain]_vars

\* the last player, holding cards, answered "hits"
C18_Witness ==
    /\ pc = "top"
    /\ decision = << <<"h", "i", "t", "s">> >>
    /\ out.msg = "Invalid decision. Try again: "
    /\ prompted = NumPlayers
    /\ hand[prompted] # <<>>

-----------------------------------------------------------------------------
(* Claims about action-card resolution *)

\* C19: every answer to a target prompt either applies the card to a player
\* of 1..N who is active when selected, or leaves the prompt pending with no
\* player or deck state changed.
C19_TargetReprompt ==
    [][pc = "target" =>
          IF pc' = "target" /\ frames' = frames
          THEN UNCHANGED <<deck, discard_pile, hand, score, active, second_chance>>
          ELSE /\ pc' # "crashed"
               /\ applied'.card = frames[Len(frames)].card.cls
               /\ applied'.target \in Players
               /\ active[applied'.target]]_vars

\* C20: each draw of a FlipThree resolution takes one card, the third draw
\* is the last, and drawing stops before the third draw exactly when the deck
\* is empty, when the target is busted without a second chance (and then
\* inactive), or when the target holds seven distinct number values.
C20_FlipThreeDraws ==
    [][pc = "flip" =>
          LET tg == frames[Len(frames)].target
              before == frames[Len(frames)].i
              drawn == frames'[Len(frames)].i
          IN  /\ before < FLIP_DRAWS
              /\ drawn - before = Len(deck) - Len(deck')
              /\ drawn - before <= 1
              /\ is_busted(hand'[tg], second_chance'[tg]) => ~active'[tg]
              /\ (pc' # "flip") <=>
                    \/ drawn = FLIP_DRAWS
                    \/ deck = <<>>
                    \/ is_busted(hand'[tg], second_chance'[tg])
                    \/ has_seven(hand'[tg])]_vars

\* C21: while a FlipThree draw sequence is running no action card is resolved:
\* a drawn action card takes one of the draws and is pushed on the stack of
\* the sequence with no player state changed; a stacked card is handed to
\* take_action only by the loop that follows the draws, and that loop takes
\* the card stacked last.
C21_StackedAfterDraws ==
    [][/\ pc = "flip" =>
             LET f == frames[Len(frames)]
                 g == frames'[Len(frames)]
             IN  /\ Len(frames') = Len(frames)
                 /\ applied' = applied
                 /\ f.i < FLIP_DRAWS
                 /\ (deck # <<>> /\ IsActionCard(deck[Len(deck)])) =>
                       /\ g.i = f.i + 1
                       /\ g.stack = Append(f.stack, deck[Len(deck)])
                       /\ UNCHANGED <<hand, score, active, second_chance>>
                 /\ ~(deck # <<>> /\ IsActionCard(deck[Len(deck)])) =>
                       g.stack = f.stack
       /\ (pc = "resolve" /\ frames[Len(frames)].stack # <<>>) =>
             LET st == frames[Len(frames)].stack
             IN  /\ pc' = "target"
                 /\ Len(frames') = Len(frames) + 1
                 /\ frames'[Len(frames')].card = st[Len(st)]
                 /\ frames'[Len(frames)].stack = SubSeq(st, 1, Len(st) - 1)
       /\ (frames # <<>> /\ Len(frames') > Len(frames)
             /\ frames'[Len(frames')].fn = "take_action") =>
             pc = "resolve"]_vars

\* two action cards were stacked by one draw sequence and the one drawn last
\* is being resolved while the other is still stacked
C21_Witness ==
    /\ pc = "target"
    /\ Len(frames) >= 3
    /\ frames[Len(frames)].card = SecondChanceCard
    /\ frames[Len(frames) - 1].fn = "action"
    /\ frames[Len(frames) - 1].stack = <<FlipThreeCard>>


-----------------------------------------------------------------------------
(* Claims about the cards of a finished round *)

\* C22: after round-end processing the discard pile holds every card that was
\* in a hand when the round ended, with its multiplicity.
C22_DiscardAtRoundEnd ==
    \A p \in Players :
        \A c \in Range(last_round[p].scored) :
            Count(c, discard_pile) >= Count(c, last_round[p].scored)

-----------------------------------------------------------------------------
(* Claims about the methods of Player *)

\* two number cards at different positions of the hand share a value
SharedValue(h) ==
    \E i, j \in 1..Len(h) :
        /\ i # j
        /\ IsNumberCard(h[i]) /\ IsNumberCard(h[j])
        /\ h[i].value = h[j].value

CalledMethod(method) == pc = "player" /\ pc' = "called" /\ out'.method = method

-----------------------------------------------------------------------------
(* Player.has_seven called on hands of up to MaxValue + 1 distinct values   *)

\* one number card per value of S, lowest value first
RECURSIVE NumberHand(_)
NumberHand(S) ==
    IF S = {} THEN <<>>
    ELSE LET v == CHOOSE x \in S : \A y \in S : x <= y
         IN  <<N(v)>> \o NumberHand(S \ {v})

\* cards put before and after the number cards: nothing, modifier and action
\* cards, a further number card
HandPrefixes == {<<>>, <<X2>>, <<FlipThreeCard, Plus(4)>>}
HandSuffixes == {<<>>, <<FreezeCard, Plus(4)>>, <<N(0)>>, <<N(MaxValue)>>}

SevenInit ==
    /\ hand \in {[p \in Players |-> IF p = Self THEN pre \o NumberHand(S) \o suf ELSE <<>>] :
                    pre \in HandPrefixes, S \in SUBSET (0..MaxValue), suf \in HandSuffixes}
    /\ score = [p \in Players |-> 0]
    /\ active = [p \in Players |-> TRUE]
    /\ second_chance \in {[p \in Players |-> IF p = Self THEN a ELSE FALSE] : a \in BOOLEAN}
    /\ deck = <<>>
    /\ discard_pile = <<>>
    /\ currentplayerid = 0
    /\ round = 1
    /\ winner = FALSE
    /\ pc = "player"
    /\ frames = <<>>
    /\ out = NoMsg
    /\ total_cards = 0
    /\ ui = NoUI
    /\ round_start_score = [p \in Players |-> 0]
    /\ busted_in_round = [p \in Players |-> FALSE]
    /\ last_round = NoRound
    /\ applied = NoApplied
    /\ prompted = 0
    /\ decision = NoDecision
    /\ last_turn = NoTurn

CallHasSeven ==
    /\ pc = "player"
    /\ pc' = "called"
    /\ out' = [msg |-> "call", method |-> "has_seven", result |-> has_seven(hand[Self])]
    /\ UNCHANGED <<deck, discard_pile, hand, score, active, second_chance,
                   currentplayerid, round, winner, frames, total_cards, ui, prompted,
                   decision, round_start_score, busted_in_round, last_round,
                   last_turn, applied>>

SevenSpec == SevenInit /\ [][CallHasSeven]_vars

\* the values carried by the number cards of the hand, found position by position
ValuesHeld(h) == {v \in 0..12 : \E i \in 1..Len(h) : IsNumberCard(h[i]) /\ h[i].value = v}

\* C24: has_seven() is true exactly when the number cards of the hand carry
\* exactly 7 distinct values, a value held twice counting once and 8 values
\* giving false; modifier and action cards of the hand make no difference.
C24_HasSeven ==
    (pc = "called" /\ out.method = "has_seven") =>
        /\ out.result = (Cardinality(ValuesHeld(hand[Self])) = 7)
        /\ Cardinality(ValuesHeld(hand[Self])) >= 8 => ~out.result
        /\ out.result = has_seven(number_cards(hand[Self]))

\* has_seven() answered false on a hand of 8 distinct values, one of them
\* held twice, with modifier and action cards in the hand
C24_Witness ==
    /\ pc = "called"
    /\ out.method = "has_seven"
    /\ ~out.result
    /\ Cardinality(ValuesHeld(hand[Self])) = 8
    /\ Len(number_cards(hand[Self])) = 9
    /\ \E i \in 1..Len(hand[Self]) : IsActionCard(hand[Self][i])

\* has_seven() answered true on a hand holding a value twice
C24_WitnessSeven ==
    /\ pc = "called"
    /\ out.method = "has_seven"
    /\ out.result
    /\ Len(number_cards(hand[Self])) = 8

\* the object is in the state a call of the method left it in; out.before is
\* the state the method was called in
Returned(method) == pc = "called" /\ out.method = method

\* C25: use_second_chance() clears the second-chance flag and leaves a hand
\* with exactly one number card per distinct value of the hand it was called
\* on and every other card with the multiplicity it had; a second call leaves
\* the same cards as the first.
C25_UseSecondChance ==
    Returned("use_second_chance") =>
        LET old == out.before.hand
            new == hand[Self]
        IN  /\ ~second_chance[Self]
            /\ \A c \in Range(old) \cup Range(new) :
                  Count(c, new) = IF IsNumberCard(c)
                                  THEN (IF c \in Range(old) THEN 1 ELSE 0)
                                  ELSE Count(c, old)
            /\ \A again \in use_second_chance(new) : SameCards(again, new)
            /\ score[Self] = out.before.score
            /\ active[Self] = out.before.active

\* use_second_chance() was called with the flag set on a hand holding a value
\* twice, a modifier card twice and a second number value
C25_Witness ==
    /\ Returned("use_second_chance")
    /\ out.before.second_chance
    /\ Count(N(3), out.before.hand) = 2
    /\ Count(N(3), hand[Self]) = 1
    /\ \E c \in Range(hand[Self]) : ~IsNumberCard(c)

\* C26: update_score() called on a busted player (a number value held twice,
\* no second chance) leaves the score, the hand and both flags as they were,
\* whatever modifier cards the hand holds.
C26_BustedKeepsScore ==
    (Returned("update_score")
        /\ is_busted(out.before.hand, out.before.second_chance)) =>
        /\ score[Self] = out.before.score
        /\ hand[Self] = out.before.hand
        /\ active[Self] = out.before.active
        /\ second_chance[Self] = out.before.second_chance

\* update_score() was called on a busted player with a positive score who
\* holds a multiplier and an additive modifier
C26_Witness ==
    /\ Returned("update_score")
    /\ SharedValue(out.before.hand)
    /\ ~out.before.second_chance
    /\ out.before.score > 0
    /\ total_multiplier(out.before.hand) > 1
    /\ Plus(4) \in Range(out.before.hand)

\* the decision prompt of a round in which no turn has been consumed yet
FirstPrompt == pc = "decide" /\ last_turn.round # round

\* C27: reset() makes the player active, clears the second chance, empties the
\* hand and returns the cards of the hand in their order, the score staying
\* what update_score() made it; so at the first prompt of every round every
\* player is active, has an empty hand and holds no second chance.
C27_ResetForNewRound ==
    /\ last_round # NoRound =>
          \A p \in Players :
              LET r == reset(last_round[p].scored)
              IN  /\ r.active /\ ~r.second_chance /\ r.hand = <<>>
                  /\ r.discarded_hand = last_round[p].scored
                  /\ active[p] = r.active
                  /\ second_chance[p] = r.second_chance
                  /\ hand[p] = r.hand
                  /\ score[p] = add_bonus(r.hand, r.second_chance, last_round[p].base)
    /\ FirstPrompt =>
          \A p \in Players : active[p] /\ hand[p] = <<>> /\ ~second_chance[p]

\* the first prompt of the second round, after a round in which cards were
\* held and scored
C27_Witness ==
    /\ FirstPrompt
    /\ round = 2
    /\ last_turn.round = 1
    /\ \E p \in Players : score[p] > 0
    /\ \A p \in Players : active[p] /\ hand[p] = <<>>

-----------------------------------------------------------------------------
(* Deck(): the constructor, and take_card on the deck it builds *)

RECURSIVE Copies(_, _)
Copies(c, n) == IF n = 0 THEN <<>> ELSE <<c>> \o Copies(c, n - 1)

\* lines 315-317: for number in range(1, 13): number copies of NumberCard(number)
RECURSIVE NumberCardsFrom(_)
NumberCardsFrom(number) ==
    IF number >= 13 THEN <<>>
    ELSE Copies(N(number), number) \o NumberCardsFrom(number + 1)

\* lines 326-329: for _ in range(4): one card of each action class
RECURSIVE ActionCards(_)
ActionCards(n) ==
    IF n = 0 THEN <<>>
    ELSE <<FreezeCard, SecondChanceCard, FlipThreeCard>> \o ActionCards(n - 1)

\* mutant: a single x2 card, as the docstring of the constructor has it
Deck_init_one_x2 ==
    NumberCardsFrom(1) \o <<N(0)>> \o [i \in 1..9 |-> Plus(i + 1)]
        \o Copies(X2, 1) \o ActionCards(4)

\* Deck.__init__: the list self._cards it builds
Deck_init ==
    NumberCardsFrom(1) \o <<N(0)>> \o [i \in 1..9 |-> Plus(i + 1)]
        \o Copies(X2, 6) \o ActionCards(4)

DeckInit ==
    /\ deck = Deck_init
    /\ total_cards = Len(Deck_init)
    /\ ui = NoUI
    /\ pc = "deck"
    /\ out = NoMsg
    /\ hand = [p \in Players |-> <<>>]
    /\ score = [p \in Players |-> 0]
    /\ active = [p \in Players |-> TRUE]
    /\ second_chance = [p \in Players |-> FALSE]
    /\ discard_pile = <<>>
    /\ currentplayerid = 0
    /\ round = 1
    /\ winner = FALSE
    /\ frames = <<>>
    /\ round_start_score = [p \in Players |-> 0]
    /\ busted_in_round = [p \in Players |-> FALSE]
    /\ last_round = NoRound
    /\ applied = NoApplied
    /\ prompted = 0
    /\ decision = NoDecision
    /\ last_turn = NoTurn

\* deck.take_card() on a deck that still has cards; out is the card returned
DeckTakeCard ==
    /\ pc = "deck"
    /\ deck # <<>>
    /\ LET t == take_card(deck)
       IN  /\ deck' = t.cards
           /\ out' = [msg |-> "take_card", card |-> t.card[1]]
    /\ UNCHANGED <<discard_pile, hand, score, active, second_chance, currentplayerid,
                   round, winner, pc, frames, total_cards, ui, round_start_score,
                   busted_in_round, last_round, applied, prompted, decision, last_turn>>

DeckSpec == DeckInit /\ [][DeckTakeCard]_vars

\* the deck as the constructor left it: no card taken yet
FreshDeck == pc = "deck" /\ out = NoMsg

CountWhere(d, Test(_)) == Cardinality({i \in 1..Len(d) : Test(d[i])})

IsAdditive(c) == IsScoreModifierCard(c) /\ c.is_addition
IsMultiplicative(c) == IsScoreModifierCard(c) /\ ~c.is_addition

-----------------------------------------------------------------------------
(* UI.println: one call, from every bounded argument list                   *)

\* a format is a str, modelled as the sequence of its characters
White == <<"#", "f", "f", "f", "f", "f", "f">>
Formats == {<<>>, <<"b">>, <<"r", "e", "d">>}
Texts == {"Player 1", "hits"}
Windows == {"main", "hand", "side"}

\* str * n
RECURSIVE Repeat(_, _)
Repeat(str, n) == IF n <= 0 THEN <<>> ELSE str \o Repeat(str, n - 1)

\* the items list += str appends: the characters of str, each a str of length 1
Chars(str) == [i \in 1..Len(str) |-> <<str[i]>>]

Min(a, b) == IF a <= b THEN a ELSE b

\* lines 841-873; given is FALSE for fmts=None.  label is the list of
\* (format, argument) pairs written to the stream, empty when nothing is
\* appended to a window.
println(args, given, fmts, window) ==
    LET defaulted == IF ~given \/ Len(fmts) = 0
                     THEN [i \in 1..Len(args) |-> White]
                     ELSE fmts
        extended == IF Len(defaulted) < Len(args)
                    THEN defaulted \o Chars(Repeat(defaulted[Len(defaulted)],
                                                   Len(args) - Len(defaulted)))
                    ELSE defaulted
        label == [i \in 1..Min(Len(extended), Len(args)) |->
                     [fmt |-> extended[i], arg |-> args[i]]]
    IN  IF Len(extended) > Len(args)
        THEN [raised |-> "ValueError", window |-> "none", label |-> <<>>]
        ELSE IF window \in {"main", "hand"}
        THEN [raised |-> "none", window |-> window, label |-> label]
        ELSE [raised |-> "ValueError", window |-> "none", label |-> <<>>]

PrintInit ==
    /\ frames \in {<<[fn |-> "println", args |-> a, given |-> g, fmts |-> f, window |-> w]>> :
                      a \in SeqsUpTo(Texts, MaxArgs), g \in BOOLEAN,
                      f \in SeqsUpTo(Formats, MaxArgs + 1), w \in Windows}
    /\ frames[1].given \/ frames[1].fmts = <<>>
    /\ pc = "ui"
    /\ out = NoMsg
    /\ deck = <<>>
    /\ total_cards = 0
    /\ ui = NoUI
    /\ hand = [p \in Players |-> <<>>]
    /\ score = [p \in Players |-> 0]
    /\ active = [p \in Players |-> TRUE]
    /\ second_chance = [p \in Players |-> FALSE]
    /\ discard_pile = <<>>
    /\ currentplayerid = 0
    /\ round = 1
    /\ winner = FALSE
    /\ round_start_score = [p \in Players |-> 0]
    /\ busted_in_round = [p \in Players |-> FALSE]
    /\ last_round = NoRound
    /\ applied = NoApplied
    /\ prompted = 0
    /\ decision = NoDecision
    /\ last_turn = NoTurn

\* the call returns or raises; out keeps the call and what came of it
Println ==
    /\ pc = "ui"
    /\ LET f == Top
           r == println(f.args, f.given, f.fmts, f.window)
       IN  out' = [msg |-> "call", method |-> "println", call |-> f,
                   raised |-> r.raised, window |-> r.window, label |-> r.label]
    /\ pc' = "called"
    /\ frames' = <<>>
    /\ UNCHANGED <<deck, discard_pile, hand, score, active, second_chance,
                   currentplayerid, round, winner, total_cards, ui, round_start_score,
                   busted_in_round, last_round, applied, prompted, decision, last_turn>>

PrintSpec == PrintInit /\ [][Println]_vars

\* C30: a call with at least one format and fewer formats than arguments
\* prints every argument, the arguments past the last format in the last
\* format, and raises nothing; ValueError is raised only when there are more
\* formats than arguments or the window is neither "main" nor "hand".
C30_PrintlnFormats ==
    Returned("println") =>
        LET args == out.call.args
            fmts == out.call.fmts
        IN  /\ (Len(fmts) >= 1 /\ Len(fmts) < Len(args)
                  /\ out.call.window \in {"main", "hand"}) =>
                  /\ out.raised = "none"
                  /\ out.label = [i \in 1..Len(args) |->
                                     [fmt |-> IF i <= Len(fmts) THEN fmts[i]
                                              ELSE fmts[Len(fmts)],
                                      arg |-> args[i]]]
            /\ out.raised = "ValueError" =>
                  \/ Len(fmts) > Len(args)
                  \/ out.call.window \notin {"main", "hand"}

-----------------------------------------------------------------------------
(* The modular build: FlipThreeCard.action of src/game/card.py, entered    *)
(* from take_action of the player whose hit drew the card.  take_action    *)
(* and the code of main after the hit are the same in both builds; main.py *)
(* tests is_busted() before it calls use_second_chance(), and is_busted()  *)
(* is false while the flag is set.                                         *)

\* Player.use_second_chance of src/game/player.py: the hand it leaves
use_second_chance_modular(h) == {h}

\* cards of the classes of card.py; the target's hand when the card is played
ModUniverse == {N(3), N(5), Plus(4), FreezeCard, SecondChanceCard, FlipThreeCard}
ModHands == {<<>>, <<N(5)>>, <<N(5), N(3)>>}

ModFlipInit ==
    /\ currentplayerid = Self
    /\ deck \in SeqsUpTo(ModUniverse, FLIP_DRAWS)
    /\ \E tg \in Players :
          /\ frames = <<[fn |-> "take_action", self |-> Self, card |-> FlipThreeCard],
                        [fn |-> "action", target |-> tg, i |-> 0, stack |-> <<>>]>>
          /\ \E h \in ModHands :
                hand = [p \in Players |->
                           (IF p = tg THEN h ELSE <<>>)
                           \o (IF p = Self THEN <<FlipThreeCard>> ELSE <<>>)]
          /\ \E sc \in BOOLEAN :
                second_chance = [p \in Players |-> p = tg /\ sc]
          /\ applied = [card |-> "FlipThreeCard", chooser |-> Self, target |-> tg,
                        flip_target |-> 0]
    /\ pc = "flip"
    /\ active = [p \in Players |-> TRUE]
    /\ score = [p \in Players |-> 0]
    /\ discard_pile = <<>>
    /\ round = 1
    /\ winner = FALSE
    /\ out = NoMsg
    /\ total_cards = Len(deck) + SumLen(1, hand)
    /\ ui = NoUI
    /\ round_start_score = [p \in Players |-> 0]
    /\ busted_in_round = [p \in Players |-> FALSE]
    /\ last_round = NoRound
    /\ prompted = Self
    /\ decision = <<<<"h", "i", "t">>>>
    /\ last_turn = NoTurn

\* card.py lines 217-242: one iteration of the draw loop; a busted target
\* without a second chance ends the loop and is left as it is
ModFlipDraw ==
    /\ pc = "flip"
    /\ LET f == Top
           tg == f.target
           t == take_card(deck)
       IN  IF t.card = <<>>
           THEN /\ pc' = "resolve"
                /\ UNCHANGED <<deck, hand, active, second_chance, frames, out,
                               busted_in_round>>
           ELSE LET card == t.card[1]
                    last == f.i + 1 >= FLIP_DRAWS
                IN  /\ deck' = t.cards
                    /\ IF IsActionCard(card)
                       THEN /\ frames' = [frames EXCEPT ![Len(frames)] =
                                            [f EXCEPT !.i = @ + 1, !.stack = Append(@, card)]]
                            /\ pc' = IF last THEN "resolve" ELSE "flip"
                            /\ UNCHANGED <<hand, active, second_chance, out, busted_in_round>>
                       ELSE LET hnd == [hand EXCEPT ![tg] = Append(@, card)]
                                outcomes ==
                                    IF is_busted(hnd[tg], second_chance[tg])
                                    THEN IF second_chance[tg]
                                         THEN {[hand |-> [hnd EXCEPT ![tg] = h2],
                                                second_chance |-> [second_chance EXCEPT ![tg] = FALSE],
                                                out |-> Msg("busted and used a second chance", tg),
                                                brk |-> FALSE] :
                                                   h2 \in use_second_chance_modular(hnd[tg])}
                                         ELSE {[hand |-> hnd,
                                                second_chance |-> second_chance,
                                                out |-> Msg("busted and their round is over", tg),
                                                brk |-> TRUE]}
                                    ELSE {[hand |-> hnd, second_chance |-> second_chance,
                                           out |-> out, brk |-> FALSE]}
                            IN  \E o \in outcomes :
                                   /\ hand' = o.hand
                                   /\ active' = active
                                   /\ second_chance' = o.second_chance
                                   /\ out' = o.out
                                   /\ busted_in_round' = SeenBusted(o.hand, o.second_chance)
                                   /\ frames' = [frames EXCEPT ![Len(frames)].i = @ + 1]
                                   /\ pc' = IF o.brk \/ has_seven(o.hand[tg]) \/ last
                                            THEN "resolve" ELSE "flip"
    /\ UNCHANGED <<discard_pile, score, currentplayerid, round, winner, total_cards, ui, prompted,
                   decision, round_start_score, last_round, last_turn, applied>>

ModFlipNext ==
    \/ ModFlipDraw
    \/ Resolve
    \/ SelectTarget
    \/ RejectTarget
    \/ TargetValueError

ModFlipSpec == ModFlipInit /\ [][ModFlipNext]_vars

CallUseSecondChanceModular ==
    /\ Called("use_second_chance")
    /\ second_chance' = [second_chance EXCEPT ![Self] = FALSE]
    /\ \E h2 \in use_second_chance_modular(hand[Self]) : hand' = [hand EXCEPT ![Self] = h2]
    /\ UNCHANGED <<score, active>>

ModPlayerSpec == PlayerInit /\ [][CallUseSecondChanceModular]_vars

\* C32: use_second_chance() of the modular build leaves the second-chance
\* flag cleared and a hand with at most one number card per value.
C32_ModularSecondChance ==
    Returned("use_second_chance") =>
        /\ ~second_chance[Self]
        /\ ~SharedValue(hand[Self])

-----------------------------------------------------------------------------
(* Claims about progress and about what a round can do to a player *)

\* C33: when a hit has found the deck empty after an earlier round ended with
\* scored cards in a hand, the recycle and reshuffle leave a deck that is not
\* empty, so the retried hit draws a card.
C33_RecycleRefillsDeck ==
    (out.msg = "Deck was empty. Discard pile shuffled"
        /\ round > 1
        /\ \E p \in Players : score[p] > 0)
    => deck # <<>>

\* C34: a round-end scoring that changes a player's score scored a hand in
\* which no two number cards have the same value.
C34_NoDuplicateScored ==
    \A p \in Players :
        last_round[p].end # last_round[p].start => ~SharedValue(last_round[p].scored)

\* C35: no hand ever holds more than seven distinct number values.
C35_AtMostSeven ==
    \A p \in Players : Cardinality(ValuesHeld(hand[p])) <= 7

C37_ScoreMonotone ==
    \A p \in Players :
        /\ score[p] \in Nat
        /\ score[p] = round_start_score[p]
        /\ last_round[p].start <= last_round[p].base
        /\ last_round[p].base <= last_round[p].end
        /\ last_round # NoRound => score[p] = last_round[p].end

\* a round has ended in which a player with points gained more and another
\* player with points kept what they had
C37_Witness ==
    \E p, q \in Players :
        /\ last_round[p].start > 0
        /\ last_round[p].end > last_round[p].start
        /\ last_round[q].start > 0
        /\ last_round[q].end = last_round[q].start
        /\ score[p] = last_round[p].end

\* the iterations of the turn loop (lines 989-996) that skip an inactive
\* player before one is prompted, counted from currentplayerid = i; more than
\* NumPlayers when the count has gone once round the table without a prompt
RECURSIVE SkipsBeforePrompt(_, _)
SkipsBeforePrompt(i, k) ==
    LET next == IF i >= NumPlayers THEN 1 ELSE i + 1
    IN  IF active[next] THEN k
        ELSE IF k >= NumPlayers THEN k + 1
        ELSE SkipsBeforePrompt(next, k + 1)

\* C38: at the start of every iteration of the turn loop some player is
\* active, and the loop reaches a decision prompt after at most N skips.
C38_LoopTopHasActive ==
    pc = "top" =>
        /\ \E p \in Players : active[p]
        /\ SkipsBeforePrompt(currentplayerid, 0) <= NumPlayers

\* the loop is at its top with a single active player, the one whose turn
\* was the last: every other player is skipped before the next prompt
C38_Witness ==
    /\ pc = "top"
    /\ currentplayerid \in Players
    /\ \A p \in Players : active[p] <=> p = currentplayerid
    /\ SkipsBeforePrompt(currentplayerid, 0) = NumPlayers - 1

-----------------------------------------------------------------------------
(* Claims about the end of a FlipThree resolution *)

RECURSIVE CountFrames(_, _)
CountFrames(fr, fn) ==
    IF fr = <<>> THEN 0
    ELSE (IF Head(fr).fn = fn THEN 1 ELSE 0) + CountFrames(Tail(fr), fn)

\* the cards stacked in the FlipThree resolutions under way, oldest first
RECURSIVE Stacked(_)
Stacked(fr) ==
    IF fr = <<>> THEN <<>>
    ELSE (IF Head(fr).fn = "action" THEN Head(fr).stack ELSE <<>>) \o Stacked(Tail(fr))

\* the nesting depth of FlipThreeCard.action
Depth(fr) == CountFrames(fr, "action")

\* FlipThree cards that can still start a resolution, and those under way
FlipThreesLeft(d, fr, at) ==
    Count(FlipThreeCard, d) + Count(FlipThreeCard, Stacked(fr)) + Depth(fr)
        + (IF at = "target" /\ fr[Len(fr)].card = FlipThreeCard THEN 1 ELSE 0)

\* what is left to do in a resolution: cards to draw, stacked cards, the card
\* whose target is requested, the resolutions and the draw loop under way
Work(d, fr, at) ==
    5 * Len(d) + 4 * Len(Stacked(fr)) + (IF at = "target" THEN 3 ELSE 0)
        + Depth(fr) + (IF at = "flip" THEN 1 ELSE 0)

RejectedAnswer == pc = "target" /\ pc' = "target" /\ frames' = frames

\* C39: a FlipThree resolution terminates when its target requests are
\* answered with valid targets.  Each resolution draws at most three cards;
\* a resolution starts only from a FlipThree card drawn from the deck, so the
\* nesting depth is at most the number of FlipThree cards the deck held when
\* the hit drew; the deck is never refilled during a resolution, and every
\* step but a rejected answer leaves less to do.
C39_FlipThreeTerminates ==
    [][/\ (frames = <<>> /\ frames' # <<>>) =>
             FlipThreesLeft(deck', frames', pc') <= Count(FlipThreeCard, deck)
       /\ frames # <<>> =>
             /\ \A k \in 1..Len(frames) :
                   frames[k].fn = "action" => frames[k].i <= FLIP_DRAWS
             /\ Depth(frames) <= FlipThreesLeft(deck, frames, pc)
             /\ pc' # "crashed" =>
                   /\ Len(deck') <= Len(deck)
                   /\ frames' # <<>> =>
                         FlipThreesLeft(deck', frames', pc') <= FlipThreesLeft(deck, frames, pc)
                   /\ ~RejectedAnswer =>
                         Work(deck', frames', pc') < Work(deck, frames, pc)]_vars

\* a FlipThree resolution started by a card stacked in another one has made
\* its three draws
C39_Witness ==
    /\ Depth(frames) = 2
    /\ frames[Len(frames)].fn = "action"
    /\ frames[Len(frames)].i = FLIP_DRAWS
    /\ pc = "resolve"

-----------------------------------------------------------------------------
(* The input hand-off: the manager thread runs _handle_input on Enter, the *)
(* event loop runs the callbacks it was handed, the engine coroutine reads *)
(* with ui.input()                                                          *)

MaxPresses == 3

\* line 751: asyncio.Queue(maxsize=1)
maxsize == 1

\* what the input field can hold when Enter is pressed
Typed == {<<"h">>, <<" ", "s", " ">>, <<>>}

\* str.strip()
RECURSIVE lstrip(_)
lstrip(str) == IF str # <<>> /\ Head(str) = " " THEN lstrip(Tail(str)) ELSE str

RECURSIVE rstrip(_)
rstrip(str) ==
    IF str # <<>> /\ str[Len(str)] = " " THEN rstrip(SubSeq(str, 1, Len(str) - 1)) ELSE str

strip(str) == rstrip(lstrip(str))

\* Queue.full(), Queue.empty()
full(q) == Len(q) >= maxsize
empty(q) == Len(q) = 0

InputInit ==
    /\ pc = "run"
    /\ ui = NoUI
    /\ frames = <<>>
    /\ out = NoMsg
    /\ deck = <<>>
    /\ total_cards = 0
    /\ hand = [p \in Players |-> <<>>]
    /\ score = [p \in Players |-> 0]
    /\ active = [p \in Players |-> TRUE]
    /\ second_chance = [p \in Players |-> FALSE]
    /\ discard_pile = <<>>
    /\ currentplayerid = 0
    /\ round = 1
    /\ winner = FALSE
    /\ round_start_score = [p \in Players |-> 0]
    /\ busted_in_round = [p \in Players |-> FALSE]
    /\ last_round = NoRound
    /\ applied = NoApplied
    /\ prompted = 0
    /\ decision = NoDecision
    /\ last_turn = NoTurn

InputKeep ==
    UNCHANGED <<deck, discard_pile, hand, score, active, second_chance,
                currentplayerid, round, winner, frames, out, total_cards,
                round_start_score, busted_in_round, last_round, applied, prompted,
                decision, last_turn>>

\* UI.run: the loop and the queue are set, then the manager thread starts
Run ==
    /\ pc = "run"
    /\ ui' = [ui EXCEPT !.loop = TRUE, !.queue = <<>>, !.thread = "idle"]
    /\ pc' = "engine"
    /\ InputKeep

\* _handle_input up to the test of the queue (lines 725-732), on the manager
\* thread: a command is dropped when the queue is full
HandleInput ==
    /\ ui.thread = "idle"
    /\ ui.presses < MaxPresses
    /\ \E value \in Typed :
          LET command == strip(value)
          IN  ui' = IF ~ui.loop \/ full(ui.queue)
                    THEN [ui EXCEPT !.presses = @ + 1]
                    ELSE [ui EXCEPT !.presses = @ + 1, !.thread = "schedule",
                                    !.command = command]
    /\ UNCHANGED pc
    /\ InputKeep

\* line 734: call_soon_threadsafe appends the call to the loop's callbacks
Schedule ==
    /\ ui.thread = "schedule"
    /\ ui' = [ui EXCEPT !.ready = Append(@, [fn |-> "put_nowait", command |-> ui.command]),
                        !.thread = "idle", !.command = <<>>]
    /\ UNCHANGED pc
    /\ InputKeep

\* the event loop runs a scheduled put_nowait: QueueFull on a full queue,
\* else the command is queued and a waiting getter is woken through the loop
PutNowait ==
    /\ ui.ready # <<>>
    /\ Head(ui.ready).fn = "put_nowait"
    /\ ui' = IF full(ui.queue)
             THEN [ui EXCEPT !.ready = Tail(@), !.raised = "QueueFull"]
             ELSE IF ui.getters > 0
                  THEN [ui EXCEPT !.ready = Append(Tail(@), [fn |-> "wakeup", command |-> <<>>]),
                                  !.queue = Append(@, Head(ui.ready).command),
                                  !.getters = @ - 1]
                  ELSE [ui EXCEPT !.ready = Tail(@),
                                  !.queue = Append(@, Head(ui.ready).command)]
    /\ UNCHANGED pc
    /\ InputKeep

\* UI.input, lines 816-820: Queue.get returns the queued command at once or
\* waits for one
Input ==
    /\ pc = "engine"
    /\ IF empty(ui.queue)
       THEN /\ ui' = [ui EXCEPT !.getters = @ + 1]
            /\ pc' = "get"
       ELSE /\ ui' = [ui EXCEPT !.queue = Tail(@), !.read = Head(ui.queue)]
            /\ pc' = "engine"
    /\ InputKeep

\* the event loop resumes the engine in Queue.get: the command is taken
Wakeup ==
    /\ pc = "get"
    /\ ui.ready # <<>>
    /\ Head(ui.ready).fn = "wakeup"
    /\ IF empty(ui.queue)
       THEN /\ ui' = [ui EXCEPT !.ready = Tail(@), !.getters = @ + 1]
            /\ pc' = "get"
       ELSE /\ ui' = [ui EXCEPT !.ready = Tail(@), !.queue = Tail(@),
                                !.read = Head(ui.queue)]
            /\ pc' = "engine"
    /\ InputKeep

InputNext ==
    \/ Run
    \/ HandleInput
    \/ Schedule
    \/ PutNowait
    \/ Input
    \/ Wakeup

InputSpec == InputInit /\ [][InputNext]_vars

\* the commands handed over and not yet read: queued, or in a scheduled put
RECURSIVE ScheduledPuts(_)
ScheduledPuts(cbs) ==
    IF cbs = <<>> THEN 0
    ELSE (IF Head(cbs).fn = "put_nowait" THEN 1 ELSE 0) + ScheduledPuts(Tail(cbs))

Pending == Len(ui.queue) + ScheduledPuts(ui.ready)

\* C40: the hand-off never holds more than one pending command, and no
\* scheduled put_nowait runs against a full queue (QueueFull is never raised).
C40_OnePendingCommand ==
    /\ Pending <= 1
    /\ ui.raised # "QueueFull"

=============================================================================
